---- MODULE Spec2Model ----
(***************************************************************************)
(* A model of src/lib.rs: BlockTimer (new / stop / Drop), PrettyDuration   *)
(* (new / fmt::Display) and nanos_from_duration.                           *)
(*                                                                         *)
(* Numbers.  The code computes in u64.  TLC's integers are 32 bits wide,   *)
(* so a u64 is kept here as four limbs in base 10^9, most significant      *)
(* first: <<l3, l2, l1, l0>> stands for l3*10^27 + l2*10^18 + l1*10^9 + l0.*)
(* A u64 fills three limbs; the fourth holds the exact product             *)
(* secs * 1_000_000_000 before it is reduced to 64 bits.  With this base   *)
(* `x * 1_000_000_000` and `x / 1_000_000_000` are limb shifts.            *)
(*                                                                         *)
(* Text.  A string is a sequence of one-character strings.                 *)
(***************************************************************************)
EXTENDS Integers, Sequences, FiniteSets, TLC

VARIABLES
    overflow_checks, \* the build: TRUE = arithmetic overflow panics (debug),
                     \* FALSE = it wraps modulo 2^64 (release)
    arg,             \* the Duration last passed to PrettyDuration::new
    status,          \* how that call ended: "idle" (no call yet) | "returned" |
                     \* "wrapped" (returned after a wrap-around) | "panicked"
    pd,              \* the PrettyDuration it returned
    out,             \* what Display wrote for pd (<<>>: not rendered yet)
    timers,          \* BlockTimer instances: label, start, stopped
    phase,           \* per instance: "unborn" | "live" | "dropped"
    now,             \* the monotonic clock, a Duration since its origin
    ticks,           \* how many times the clock has advanced
    stderr           \* the lines written to the diagnostic stream

vars == <<overflow_checks, arg, status, pd, out, timers, phase, now, ticks, stderr>>

fmtVars == <<arg, status, pd, out>>

timerVars == <<timers, phase, now, ticks, stderr>>

----------------------------------------------------------------------------
(* Bounds of the model *)

\* whole seconds 0..MaxSmallSecs are offered to PrettyDuration::new
MaxSmallSecs == 2

\* seconds 18_446_744_073 + (0..MaxOverSecs): around the u64 nanosecond limit
MaxOverSecs == 1

\* the clock advances at most MaxTicks times
MaxTicks == 2

\* at most MaxLines lines are written to stderr
MaxLines == 3

----------------------------------------------------------------------------
(* Program constants *)

NANOS_PER_SEC == 1000000000

NANOS_PER_MILLI == 1000000

NANOS_PER_MICRO == 1000

TENTH == 100

----------------------------------------------------------------------------
(* Wide (limb) arithmetic *)

Base == NANOS_PER_SEC

W(n) == <<0, 0, 0, n>>

WZero == W(0)

WLt(x, y) ==
    \E i \in 1..4 : x[i] < y[i] /\ \A j \in 1..(i-1) : x[j] = y[j]

WLe(x, y) == x = y \/ WLt(x, y)

\* x + y, limb by limb with carry (the top limb is not reduced)
WAdd(x, y) ==
    LET s4 == x[4] + y[4]
        c4 == s4 \div Base
        s3 == x[3] + y[3] + c4
        c3 == s3 \div Base
        s2 == x[2] + y[2] + c3
        c2 == s2 \div Base
        s1 == x[1] + y[1] + c2
    IN  <<s1, s2 % Base, s3 % Base, s4 % Base>>

\* x - y for x >= y, limb by limb with borrow
WSub(x, y) ==
    LET d4 == x[4] - y[4]
        b4 == IF d4 < 0 THEN 1 ELSE 0
        d3 == x[3] - y[3] - b4
        b3 == IF d3 < 0 THEN 1 ELSE 0
        d2 == x[2] - y[2] - b3
        b2 == IF d2 < 0 THEN 1 ELSE 0
        d1 == x[1] - y[1] - b2
    IN  <<d1, d2 + b2 * Base, d3 + b3 * Base, d4 + b4 * Base>>

\* x * 1_000_000_000, exact for x < 10^27
WMulBase(x) == <<x[2], x[3], x[4], 0>>

\* x / 1_000_000_000, truncating
WDivBase(x) == <<0, x[1], x[2], x[3]>>

\* 2^64 = 18_446_744_073_709_551_616
Two64 == <<0, 18, 446744073, 709551616>>

RECURSIVE WrapU64(_)
\* x modulo 2^64
WrapU64(x) == IF WLt(x, Two64) THEN x ELSE WrapU64(WSub(x, Two64))

----------------------------------------------------------------------------
(* std::time::Duration: whole seconds (u64) and subsec_nanos (< 10^9) *)

Duration(s, n) == [secs |-> s, nanos |-> n]

ZeroDuration == Duration(WZero, 0)

\* the exact number of nanoseconds in d, as a wide number
TotalNanos(d) == WAdd(WMulBase(d.secs), W(d.nanos))

\* a + b
DurAdd(a, b) ==
    LET n == a.nanos + b.nanos
    IN  Duration(WAdd(WAdd(a.secs, b.secs), W(n \div Base)), n % Base)

\* a - b for a >= b (Instant::elapsed: now - start)
DurSub(a, b) ==
    LET n == a.nanos - b.nanos
        borrow == IF n < 0 THEN 1 ELSE 0
    IN  Duration(WSub(WSub(a.secs, b.secs), W(borrow)), n + borrow * Base)

----------------------------------------------------------------------------
(* fn nanos_from_duration(d: Duration) -> u64 *)

nanos_from_duration(d, checks) ==
    LET exact == WAdd(WMulBase(d.secs), W(d.nanos))
    IN  IF WLt(exact, Two64)
        THEN [panicked |-> FALSE, wrapped |-> FALSE, value |-> exact]
        ELSE IF checks
        THEN [panicked |-> TRUE, wrapped |-> FALSE, value |-> WZero]
        ELSE [panicked |-> FALSE, wrapped |-> TRUE, value |-> WrapU64(exact)]

----------------------------------------------------------------------------
(* PrettyDuration::new *)

PrettyDuration(s, ms, us, ns) ==
    [secs |-> s, millis |-> ms, micros |-> us, nanos |-> ns]

ZeroPretty == PrettyDuration(WZero, 0, 0, 0)

\* Decompose with `d` not rebound after millis is taken: micros and nanos are
\* computed from the remainder below one second
Decompose_no_rebind(d0) ==
    LET secs   == WDivBase(d0)
        d1     == WSub(d0, WMulBase(secs))[4]
        millis == d1 \div NANOS_PER_MILLI
        micros == d1 \div NANOS_PER_MICRO
        nanos  == d1 - micros * NANOS_PER_MICRO
    IN  PrettyDuration(secs, millis, micros, nanos)

\* the body of PrettyDuration::new after the conversion, on a u64 count d0
Decompose(d0) ==
    LET secs   == WDivBase(d0)
        d1     == WSub(d0, WMulBase(secs))[4]
        millis == d1 \div NANOS_PER_MILLI
        d2     == d1 - millis * NANOS_PER_MILLI
        micros == d2 \div NANOS_PER_MICRO
        nanos  == d2 - micros * NANOS_PER_MICRO
    IN  PrettyDuration(secs, millis, micros, nanos)

\* pub fn new(d: Duration) -> Self, under a build with or without overflow checks
PrettyDuration_new(d, checks) ==
    LET r == nanos_from_duration(d, checks)
    IN  [panicked |-> r.panicked,
         wrapped  |-> r.wrapped,
         value    |-> IF r.panicked THEN ZeroPretty ELSE Decompose(r.value)]

----------------------------------------------------------------------------
(* impl fmt::Display for PrettyDuration *)

Digits == <<"0", "1", "2", "3", "4", "5", "6", "7", "8", "9">>

RECURSIVE DecInt(_)
\* "{}" of an integer 0 <= n < 2^31
DecInt(n) ==
    IF n < 10 THEN <<Digits[n + 1]>>
    ELSE DecInt(n \div 10) \o <<Digits[(n % 10) + 1]>>

RECURSIVE ZeroPad(_, _)
ZeroPad(s, k) == IF Len(s) >= k THEN s ELSE ZeroPad(<<"0">> \o s, k)

\* a lower limb: nine digits, zero padded
DecLimb(n) == ZeroPad(DecInt(n), 9)

\* "{}" of a wide number
DecWide(x) ==
    IF x[1] > 0 THEN DecInt(x[1]) \o DecLimb(x[2]) \o DecLimb(x[3]) \o DecLimb(x[4])
    ELSE IF x[2] > 0 THEN DecInt(x[2]) \o DecLimb(x[3]) \o DecLimb(x[4])
    ELSE IF x[3] > 0 THEN DecInt(x[3]) \o DecLimb(x[4])
    ELSE DecInt(x[4])

\* fmt with the first two branches in the wrong order
fmt_millis_first(self) ==
    IF self.millis > 0
    THEN DecInt(self.millis) \o <<".">> \o DecInt(self.micros \div TENTH) \o <<"m", "s">>
    ELSE IF WLt(WZero, self.secs)
    THEN DecWide(self.secs) \o <<".">> \o DecInt(self.millis \div TENTH) \o <<"s">>
    ELSE IF self.micros > 0
    THEN DecInt(self.micros) \o <<"u", "s">>
    ELSE DecInt(self.nanos) \o <<"n", "s">>

\* fmt with the digit rounded to nearest instead of truncated
fmt_rounded(self) ==
    IF WLt(WZero, self.secs)
    THEN DecWide(self.secs) \o <<".">>
             \o DecInt((self.millis + TENTH \div 2) \div TENTH) \o <<"s">>
    ELSE IF self.millis > 0
    THEN DecInt(self.millis) \o <<".">>
             \o DecInt((self.micros + TENTH \div 2) \div TENTH) \o <<"m", "s">>
    ELSE IF self.micros > 0
    THEN DecInt(self.micros) \o <<"u", "s">>
    ELSE DecInt(self.nanos) \o <<"n", "s">>

\* fn fmt(&self, f): the text written
fmt(self) ==
    IF WLt(WZero, self.secs)
    THEN DecWide(self.secs) \o <<".">> \o DecInt(self.millis \div TENTH) \o <<"s">>
    ELSE IF self.millis > 0
    THEN DecInt(self.millis) \o <<".">> \o DecInt(self.micros \div TENTH) \o <<"m", "s">>
    ELSE IF self.micros > 0
    THEN DecInt(self.micros) \o <<"u", "s">>
    ELSE DecInt(self.nanos) \o <<"n", "s">>

----------------------------------------------------------------------------
(* The durations offered to PrettyDuration::new *)

\* 18_446_744_073 = (2^64 - 1) / 10^9, the largest whole-second count whose
\* nanoseconds fit a u64
U64MaxSecs == WDivBase(WSub(Two64, W(1)))

SecsInputs ==
    {W(s) : s \in 0..MaxSmallSecs}
        \cup {WAdd(U64MaxSecs, W(k)) : k \in 0..MaxOverSecs}

NanosInputs ==
    {0, 500, 1500, 1999000, 2340000, 50000000, 709551615, 709551616,
     999900000, 999999999}

DurationInputs == {Duration(s, n) : s \in SecsInputs, n \in NanosInputs}

----------------------------------------------------------------------------
(* Calls of the formatter *)

\* the last call returned a PrettyDuration
Returned == status \in {"returned", "wrapped"}

\* let p = PrettyDuration::new(d);
New(d) ==
    LET r == PrettyDuration_new(d, overflow_checks)
    IN  /\ arg' = d
        /\ status' = IF r.panicked THEN "panicked"
                      ELSE IF r.wrapped THEN "wrapped" ELSE "returned"
        /\ pd' = r.value
        /\ out' = <<>>
        /\ UNCHANGED <<overflow_checks, timerVars>>

\* format!("{}", p)
Display ==
    /\ Returned
    /\ out = <<>>
    /\ out' = fmt(pd)
    /\ UNCHANGED <<overflow_checks, arg, status, pd, timerVars>>

----------------------------------------------------------------------------
(* BlockTimer *)

TimerIds == {1, 2}

Labels == {<<"w", "o", "r", "k">>, <<"i", "o">>}

\* the amounts by which the clock advances between two readings
Steps == {Duration(WZero, 2340000), Duration(W(1), 50000000)}

BlockTimer(l, s, b) == [label |-> l, start |-> s, stopped |-> b]

\* storage that holds no timer yet
NoTimer == BlockTimer(<<>>, ZeroDuration, FALSE)

\* pub fn new<S: Into<CowStr>>(label: S) -> Self, the clock reading nowv
BlockTimer_new(label, nowv) == BlockTimer(label, nowv, FALSE)

\* eprintln!("{}: {}", self.label, d): the line written
ReportLine(label, d) == label \o <<":", " ">> \o fmt(d) \o <<"\n">>

\* stop that flips the flag instead of setting it
stop_toggle(self, nowv, checks) ==
    LET stopped_self == [self EXCEPT !.stopped = ~self.stopped]
        elapsed == DurSub(nowv, self.start)
        d == PrettyDuration_new(elapsed, checks)
    IN  [self     |-> stopped_self,
         lines    |-> IF d.panicked THEN <<>>
                      ELSE <<ReportLine(stopped_self.label, d.value)>>,
         panicked |-> d.panicked]

\* stop that also restarts the timer
stop_restart(self, nowv, checks) ==
    LET stopped_self == [self EXCEPT !.stopped = TRUE, !.start = nowv]
        elapsed == DurSub(nowv, self.start)
        d == PrettyDuration_new(elapsed, checks)
    IN  [self     |-> stopped_self,
         lines    |-> IF d.panicked THEN <<>>
                      ELSE <<ReportLine(stopped_self.label, d.value)>>,
         panicked |-> d.panicked]

\* pub fn stop(&mut self): the timer afterwards, the lines written, and
\* whether PrettyDuration::new panicked before the line was written
stop(self, nowv, checks) ==
    LET stopped_self == [self EXCEPT !.stopped = TRUE]
        elapsed == DurSub(nowv, self.start)
        d == PrettyDuration_new(elapsed, checks)
    IN  [self     |-> stopped_self,
         lines    |-> IF d.panicked THEN <<>>
                      ELSE <<ReportLine(stopped_self.label, d.value)>>,
         panicked |-> d.panicked]

\* drop without the early return
drop_unchecked(self, nowv, checks) == stop(self, nowv, checks)

\* impl Drop for BlockTimer: fn drop(&mut self)
drop(self, nowv, checks) ==
    IF self.stopped
    THEN [self |-> self, lines |-> <<>>, panicked |-> FALSE]
    ELSE stop(self, nowv, checks)

\* the lines of one call, as entries of the stream written by instance t
Written(t, lines) == [i \in 1..Len(lines) |-> [by |-> t, text |-> lines[i]]]

\* the number of lines instance t has written
Reports(t) == Cardinality({i \in 1..Len(stderr) : stderr[i].by = t})

\* let mut t = BlockTimer::new(label);
Create(t, label) ==
    /\ phase[t] = "unborn"
    /\ timers' = [timers EXCEPT ![t] = BlockTimer_new(label, now)]
    /\ phase' = [phase EXCEPT ![t] = "live"]
    /\ UNCHANGED <<overflow_checks, fmtVars, now, ticks, stderr>>

\* t.stop();  (a panic unwinds the owning scope, which drops the timer:
\* stopped is already true, so that drop writes nothing)
Stop(t) ==
    /\ phase[t] = "live"
    /\ Len(stderr) < MaxLines
    /\ LET r == stop(timers[t], now, overflow_checks)
       IN  /\ timers' = [timers EXCEPT ![t] = r.self]
           /\ stderr' = stderr \o Written(t, r.lines)
           /\ phase' = IF r.panicked THEN [phase EXCEPT ![t] = "dropped"] ELSE phase
    /\ UNCHANGED <<overflow_checks, fmtVars, now, ticks>>

\* the owning scope ends: drop(t)
Drop(t) ==
    /\ phase[t] = "live"
    /\ Len(stderr) < MaxLines
    /\ LET r == drop(timers[t], now, overflow_checks)
       IN  /\ timers' = [timers EXCEPT ![t] = r.self]
           /\ stderr' = stderr \o Written(t, r.lines)
    /\ phase' = [phase EXCEPT ![t] = "dropped"]
    /\ UNCHANGED <<overflow_checks, fmtVars, now, ticks>>

\* time passes: the next Instant::now() reads step later
Tick(step) ==
    /\ ticks < MaxTicks
    /\ now' = DurAdd(now, step)
    /\ ticks' = ticks + 1
    /\ UNCHANGED <<overflow_checks, fmtVars, timers, phase, stderr>>

----------------------------------------------------------------------------
(* Specifications *)

Init ==
    /\ overflow_checks \in BOOLEAN
    /\ arg = ZeroDuration
    /\ status = "idle"
    /\ pd = ZeroPretty
    /\ out = <<>>
    /\ timers = [t \in TimerIds |-> NoTimer]
    /\ phase = [t \in TimerIds |-> "unborn"]
    /\ now = ZeroDuration
    /\ ticks = 0
    /\ stderr = <<>>

\* the timers of a program
Next ==
    \/ \E t \in TimerIds, l \in Labels : Create(t, l)
    \/ \E t \in TimerIds : Stop(t)
    \/ \E t \in TimerIds : Drop(t)
    \/ \E step \in Steps : Tick(step)

Spec == Init /\ [][Next]_vars

\* the formatter applied to the durations of DurationInputs
FormatNext ==
    \/ \E d \in DurationInputs : New(d)
    \/ Display

FormatSpec == Init /\ [][FormatNext]_vars

----------------------------------------------------------------------------
(* Reading a rendered duration back *)

DigitChars == {Digits[i] : i \in 1..10}

DigitVal(c) == CHOOSE n \in 0..9 : Digits[n + 1] = c

\* the number of digit characters s begins with
LeadingDigits(s) ==
    IF \A i \in 1..Len(s) : s[i] \in DigitChars THEN Len(s)
    ELSE (CHOOSE i \in 1..Len(s) :
              /\ s[i] \notin DigitChars
              /\ \A j \in 1..(i-1) : s[j] \in DigitChars) - 1

RECURSIVE ParseInt(_)
\* the value of at most nine digits
ParseInt(s) ==
    IF s = <<>> THEN 0
    ELSE ParseInt(SubSeq(s, 1, Len(s) - 1)) * 10 + DigitVal(s[Len(s)])

\* the value of at most 27 digits, as a wide number
ParseWide(s) ==
    LET n == Len(s)
        chunk(k) == SubSeq(s, IF n - 9*k - 8 < 1 THEN 1 ELSE n - 9*k - 8, n - 9*k)
    IN  <<0, ParseInt(chunk(2)), ParseInt(chunk(1)), ParseInt(chunk(0))>>

\* a rendered duration split into whole part, digits after the point, unit
Parts(s) ==
    LET w    == LeadingDigits(s)
        rest == SubSeq(s, w + 1, Len(s))
        hasPoint == rest # <<>> /\ rest[1] = "."
        after == IF hasPoint THEN SubSeq(rest, 2, Len(rest)) ELSE rest
        f    == LeadingDigits(after)
    IN  [whole |-> SubSeq(s, 1, w),
         point |-> hasPoint,
         frac  |-> SubSeq(after, 1, f),
         unit  |-> SubSeq(after, f + 1, Len(after))]

\* the nanoseconds a rendered duration stands for
RenderedNanos(s) ==
    LET p == Parts(s)
        whole == ParseWide(p.whole)
        frac  == ParseInt(p.frac)
    IN  IF p.unit = <<"s">>
        THEN WAdd(WMulBase(whole), W(frac * (NANOS_PER_SEC \div 10)))
        ELSE IF p.unit = <<"m", "s">>
        THEN W(whole[4] * NANOS_PER_MILLI + frac * (NANOS_PER_MILLI \div 10))
        ELSE IF p.unit = <<"u", "s">>
        THEN W(whole[4] * NANOS_PER_MICRO)
        ELSE whole

\* secs*1_000_000_000 + millis*1_000_000 + micros*1_000 + nanos
Recombined(p) ==
    WAdd(WMulBase(p.secs),
         W(p.millis * NANOS_PER_MILLI + p.micros * NANOS_PER_MICRO + p.nanos))

----------------------------------------------------------------------------
(* Properties of BlockTimer, under Spec *)

\* C1: once a timer has been dropped, after any number of explicit stop()
\* calls, it has written exactly one report line.
C1_ExactlyOneReport ==
    \A t \in TimerIds : phase[t] = "dropped" => Reports(t) = 1

\* C2: a stop() on a timer that is already stopped writes nothing: the
\* stream is the same after the call as before it.
C2_SecondStopSilent ==
    [][\A t \in TimerIds :
          (phase[t] = "live" /\ timers[t].stopped /\ phase'[t] = "live")
              => Reports(t)' = Reports(t)]_vars

\* C3: the step that drops a timer writes one report line if the timer was
\* still running and none if it was already stopped.
C3_DropReportsIffRunning ==
    [][\A t \in TimerIds :
          (phase[t] = "live" /\ phase'[t] = "dropped")
              => /\ Reports(t)' = Reports(t) + (IF timers[t].stopped THEN 0 ELSE 1)
                 /\ \A u \in TimerIds \ {t} : Reports(u)' = Reports(u)]_vars

\* two timers with the same label and start have both been dropped, each has
\* written exactly one line, and the two lines report different elapsed times
C3_Witness ==
    /\ phase[1] = "dropped" /\ Reports(1) = 1
    /\ phase[2] = "dropped" /\ Reports(2) = 1
    /\ Len(stderr) = 2 /\ stderr[1].by = 1 /\ stderr[2].by = 2
    /\ timers[1].start = timers[2].start
    /\ stderr[1].text # stderr[2].text
    /\ timers[1].label = timers[2].label

\* the line a timer writes at the clock reading nowv
ExpectedLine(self, nowv) ==
    self.label \o <<":", " ">>
        \o fmt(PrettyDuration_new(DurSub(nowv, self.start), overflow_checks).value)
        \o <<"\n">>

WorkLabel == <<"w", "o", "r", "k">>

WorkLine == <<"w", "o", "r", "k", ":", " ", "2", ".", "3", "m", "s", "\n">>

\* C8: construction stores the given label and the clock reading; no later
\* step changes the label or the start of a timer; every line a step appends
\* to the stream is "<label>: <duration>\n" for the writing timer's label and
\* the rendering of now - start, e.g. "work: 2.3ms\n" after 2,340,000 ns.
C8_FrameAndLine ==
    [][/\ \A t \in TimerIds, l \in Labels :
              Create(t, l) => timers'[t].label = l /\ timers'[t].start = now
       /\ \A t \in TimerIds :
              phase[t] # "unborn"
                  => /\ timers'[t].label = timers[t].label
                     /\ timers'[t].start = timers[t].start
       /\ SubSeq(stderr', 1, Len(stderr)) = stderr
       /\ \A i \in (Len(stderr) + 1)..Len(stderr') :
              LET self == timers[stderr'[i].by]
              IN  /\ stderr'[i].text = ExpectedLine(self, now)
                  /\ (self.label = WorkLabel
                        /\ DurSub(now, self.start) = Duration(WZero, 2340000))
                         => stderr'[i].text = WorkLine]_vars

\* a timer labelled "work" has written "work: 2.3ms\n" and has been dropped
C8_Witness ==
    \E t \in TimerIds :
        /\ phase[t] = "dropped"
        /\ timers[t].label = WorkLabel
        /\ \E i \in 1..Len(stderr) : stderr[i].by = t /\ stderr[i].text = WorkLine

\* C10: a timer is running right after construction; a step in which it
\* writes a report leaves it stopped; once stopped it stays stopped.
C10_StoppedOneWay ==
    [][\A t \in TimerIds :
          /\ (phase[t] = "unborn" /\ phase'[t] = "live") => ~timers'[t].stopped
          /\ Reports(t)' > Reports(t) => timers'[t].stopped
          /\ timers[t].stopped => timers'[t].stopped]_vars

\* a live timer on which stop() has been called twice
C10_Witness ==
    \E t \in TimerIds :
        phase[t] = "live" /\ timers[t].stopped /\ Reports(t) = 2

----------------------------------------------------------------------------
(* Properties of PrettyDuration, under FormatSpec *)

\* C4: whenever PrettyDuration::new(D) returns, its fields recombine to D:
\* secs*1_000_000_000 + millis*1_000_000 + micros*1_000 + nanos equals the
\* number of nanoseconds in D.
C4_RecombinesToDuration ==
    Returned => Recombined(pd) = TotalNanos(arg)

\* C9: PrettyDuration::new is total: no call panics and no call returns
\* after the nanosecond count wrapped around 2^64.
C9_NeverOverflows ==
    status \in {"idle", "returned"}

SubUnitRange == 0..999

\* C5: millis, micros and nanos of every PrettyDuration built lie in 0..999
\* and secs is not negative; in every rendering with a decimal point exactly
\* one digit stands between the point and the unit.
C5_FieldRangesAndDigit ==
    /\ Returned =>
          /\ pd.millis \in SubUnitRange
          /\ pd.micros \in SubUnitRange
          /\ pd.nanos \in SubUnitRange
          /\ WLe(WZero, pd.secs)
          /\ \A i \in 2..4 : pd.secs[i] \in 0..(Base - 1)
    /\ out # <<>> =>
          LET p == Parts(out)
          IN  /\ p.whole # <<>>
              /\ p.point => Len(p.frac) = 1
              /\ ~p.point => p.frac = <<>>

\* 1.9999 s was decomposed into 1 s, 999 ms, 900 us, 0 ns and rendered "1.9s"
C5_Witness ==
    /\ Returned
    /\ pd = PrettyDuration(W(1), 999, 900, 0)
    /\ out = <<"1", ".", "9", "s">>

\* the unit of the coarsest non-zero field of p ("ns" when all are zero)
CoarsestUnit(p) ==
    IF p.secs # WZero THEN <<"s">>
    ELSE IF p.millis # 0 THEN <<"m", "s">>
    ELSE IF p.micros # 0 THEN <<"u", "s">>
    ELSE <<"n", "s">>

\* the durations of the spec's scenarios and what they render as
Scenarios ==
    { <<Duration(WZero, 0),        <<"0", "n", "s">>>>,
      <<Duration(WZero, 500),      <<"5", "0", "0", "n", "s">>>>,
      <<Duration(WZero, 1500),     <<"1", "u", "s">>>>,
      <<Duration(WZero, 2340000),  <<"2", ".", "3", "m", "s">>>>,
      <<Duration(W(1), 50000000),  <<"1", ".", "0", "s">>>> }

\* C6: a rendering carries the unit of the coarsest non-zero field, its whole
\* part is that field, and its digit (for s and ms) is the next field
\* divided by 100; the scenario durations render as the spec lists them.
C6_FormatSelection ==
    out # <<>> =>
        LET p == Parts(out)
            u == CoarsestUnit(pd)
        IN  /\ p.unit = u
            /\ u = <<"s">> =>
                  /\ ParseWide(p.whole) = pd.secs
                  /\ p.point /\ ParseInt(p.frac) = pd.millis \div 100
            /\ u = <<"m", "s">> =>
                  /\ ParseWide(p.whole) = W(pd.millis)
                  /\ p.point /\ ParseInt(p.frac) = pd.micros \div 100
            /\ u = <<"u", "s">> => ParseWide(p.whole) = W(pd.micros) /\ ~p.point
            /\ u = <<"n", "s">> => ParseWide(p.whole) = W(pd.nanos) /\ ~p.point
            /\ p.whole = <<"0">> \/ p.whole[1] # "0"
            /\ \A sc \in Scenarios : arg = sc[1] => out = sc[2]

\* 2,340,000 ns has been rendered as "2.3ms"
C6_Witness ==
    /\ arg = Duration(WZero, 2340000)
    /\ out = <<"2", ".", "3", "m", "s">>

\* C7: what a rendering stands for (whole part and digit, in nanoseconds)
\* never exceeds the duration rendered; 1,999,900,000 ns renders as "1.9s"
\* and 1,999,000 ns as "1.9ms".
C7_Truncates ==
    out # <<>> =>
        /\ WLe(RenderedNanos(out), TotalNanos(arg))
        /\ arg = Duration(W(1), 999900000) => out = <<"1", ".", "9", "s">>
        /\ arg = Duration(WZero, 1999000) => out = <<"1", ".", "9", "m", "s">>

\* 1,999,000 ns has been rendered as "1.9ms"
C7_Witness ==
    /\ arg = Duration(WZero, 1999000)
    /\ out = <<"1", ".", "9", "m", "s">>

====
